---- MODULE Spec2Model ----
(***************************************************************************)
(* Streaming ingestion + rotating CSV sink of the two serial loggers:      *)
(*   pc_lick_logger.py          (token-anchored strategy, "lick")          *)
(*   serial_to_csv_rotating.py  (positional strategy, "serial")            *)
(* One run of main() of either program is modelled statement by statement. *)
(* Time is a discrete wall clock counted in seconds.  A text line is a     *)
(* sequence of one-character strings, a CSV row is a tuple of fields, a    *)
(* file on disk is a sequence of rows.                                     *)
(***************************************************************************)
EXTENDS Integers, Sequences, FiniteSets, TLC

(* ------------------------------ bounds --------------------------------- *)
\* seconds past the rotation deadline of the current file up to which the
\* channel still delivers reads
MaxLate == 0
\* number of accepted lines the channel delivers in one run
MaxEvents == 2
\* number of output files after which the channel delivers nothing more
MaxFiles == 2
\* largest rotation period (seconds) tried for --period-min (a float)
MaxPeriod == 1

(* ------------------------- program constants --------------------------- *)
\* serial.Serial(..., timeout=1): a read blocks for at most one second
ReadTimeout == 1
\* rotate_after = args.minutes * 60.0
SecPerMin == 60

(* ------------------------------- text ---------------------------------- *)
Digits == <<"0", "1", "2", "3", "4", "5", "6", "7", "8", "9">>

IsDigit(c) == \E i \in 1..10 : Digits[i] = c

DigitVal(c) == (CHOOSE i \in 1..10 : Digits[i] = c) - 1

\* str.isspace() on the characters the lines are built from
IsSpace(c) == c \in {" ", "\t", "\n", "\r"}

RECURSIVE LStrip(_)
LStrip(s) == IF s # <<>> /\ IsSpace(Head(s)) THEN LStrip(Tail(s)) ELSE s

RECURSIVE RStrip(_)
RStrip(s) ==
    IF s # <<>> /\ IsSpace(s[Len(s)]) THEN RStrip(SubSeq(s, 1, Len(s) - 1)) ELSE s

\* str.strip()
Strip(s) == RStrip(LStrip(s))

\* int() of a run of decimal digits
RECURSIVE ParseInt(_)
ParseInt(s) ==
    IF s = <<>> THEN 0
    ELSE 10 * ParseInt(SubSeq(s, 1, Len(s) - 1)) + DigitVal(s[Len(s)])

AllDigits(s) == \A i \in 1..Len(s) : IsDigit(s[i])

(* ------------------- token-anchored parser (lick) ---------------------- *)
\* the literal that follows the digits in LICK_RE = (\d+)\tlick\t
LickTag == <<"\t", "l", "i", "c", "k", "\t">>

\* s[i..j] is group 1 of a match of LICK_RE that starts at i
LickMatch(s, i, j) ==
    /\ 1 <= i /\ i <= j /\ j + Len(LickTag) <= Len(s)
    /\ AllDigits(SubSeq(s, i, j))
    /\ SubSeq(s, j + 1, j + Len(LickTag)) = LickTag

\* LICK_RE.search(s): the leftmost match, or none
LickSearch(s) ==
    LET M == {p \in (1..Len(s)) \X (1..Len(s)) : LickMatch(s, p[1], p[2])}
    IN  IF M = {} THEN [ok |-> FALSE, ts |-> 0]
        ELSE LET first == CHOOSE p \in M : \A q \in M : p[1] <= q[1]
             IN  [ok |-> TRUE, ts |-> ParseInt(SubSeq(s, first[1], first[2]))]

\* lines 85-91 of pc_lick_logger.py: decode, strip, search
LickParse(line) == LickSearch(Strip(line))

(* --------------------- positional parser (serial) ---------------------- *)
\* index of the first whitespace character of s, or 0
FirstSpace(s) ==
    IF \E i \in 1..Len(s) : IsSpace(s[i])
    THEN CHOOSE i \in 1..Len(s) : IsSpace(s[i]) /\ \A k \in 1..(i - 1) : ~IsSpace(s[k])
    ELSE 0

\* a split that cuts at the first whitespace character only
Split1KeepsGap(s) ==
    LET k == FirstSpace(s)
    IN  IF k = 0 THEN <<s>>
        ELSE <<SubSeq(s, 1, k - 1), SubSeq(s, k + 1, Len(s))>>

\* str.split(None, 1) of a stripped, non-empty line
Split1(s) ==
    LET k == FirstSpace(s)
    IN  IF k = 0 THEN <<s>>
        ELSE <<SubSeq(s, 1, k - 1), LStrip(SubSeq(s, k, Len(s)))>>

\* digits with single underscores between them, as float() and int() take them
RECURSIVE IsDigitPart(_)
IsDigitPart(s) ==
    /\ s # <<>>
    /\ IsDigit(s[1])
    /\ \/ Len(s) = 1
       \/ IsDigit(s[2]) /\ IsDigitPart(Tail(s))
       \/ s[2] = "_" /\ Len(s) >= 3 /\ IsDigitPart(SubSeq(s, 3, Len(s)))

\* [digits][.[digits]] with at least one digit
IsDecimal(s) ==
    \/ IsDigitPart(s)
    \/ \E k \in 1..Len(s) :
          /\ s[k] = "."
          /\ LET a == SubSeq(s, 1, k - 1)
                 b == SubSeq(s, k + 1, Len(s))
             IN  /\ a # <<>> \/ b # <<>>
                 /\ a = <<>> \/ IsDigitPart(a)
                 /\ b = <<>> \/ IsDigitPart(b)

Unsigned(s) == IF s # <<>> /\ s[1] \in {"+", "-"} THEN Tail(s) ELSE s

Lower(c) ==
    CASE c = "I" -> "i" [] c = "N" -> "n" [] c = "F" -> "f" [] c = "A" -> "a"
      [] c = "T" -> "t" [] c = "Y" -> "y" [] c = "E" -> "e" [] OTHER -> c

RECURSIVE LowerStr(_)
LowerStr(s) == IF s = <<>> THEN <<>> ELSE <<Lower(Head(s))>> \o LowerStr(Tail(s))

\* float(ts_str) does not raise
IsFloat(tok) ==
    LET u == LowerStr(Unsigned(Strip(tok)))
    IN  \/ u \in {<<"i", "n", "f">>, <<"n", "a", "n">>,
                  <<"i", "n", "f", "i", "n", "i", "t", "y">>}
        \/ IsDecimal(u)
        \/ \E k \in 1..Len(u) :
              /\ u[k] = "e"
              /\ IsDecimal(SubSeq(u, 1, k - 1))
              /\ IsDigitPart(Unsigned(SubSeq(u, k + 1, Len(u))))

Rejected == [ok |-> FALSE, ts_str |-> <<>>, cadena |-> <<>>]

\* parse_line(line)
parse_line(line) ==
    IF line = <<>> THEN Rejected
    ELSE LET s == Strip(line)
         IN  IF s = <<>> THEN Rejected
             ELSE LET parts == Split1(s)
                  IN  IF Len(parts) # 2 THEN Rejected
                      ELSE IF ~IsFloat(parts[1]) THEN Rejected
                      ELSE [ok |-> TRUE, ts_str |-> parts[1], cadena |-> parts[2]]

\* lines 102-107 of serial_to_csv_rotating.py: decode, strip, parse_line
SerialParse(raw) == parse_line(Strip(raw))

(* ------------------------------ state ---------------------------------- *)
VARIABLES
    prog,          \* which program runs: "lick" or "serial"
    period,        \* rotation period in seconds (args.minutes / args.period_min)
    clock,         \* wall clock, seconds
    pc,            \* the statement main() executes next
    ser,           \* the serial channel: "unopened", "open", "closed"
    h,             \* the handle csv_file / f currently bound in main()
    newh,          \* the handle open_csv / new_csv_writer returned, not yet bound
    leaked,        \* open handles no variable refers to any more
    disk,          \* file name -> rows on stable storage
    created,       \* file names in the order open(..., "w") created them
    lick_count,    \* lick_count of pc_lick_logger.main
    opened_at,     \* opened_at (lick) / created_at (serial)
    rotate_after,  \* lick: the period; serial: the absolute deadline
    cur,           \* the accepted event of the iteration in progress, a tuple
    exc,           \* the exception that ended the loop, "none" while it runs
    excAt,         \* the statement at which that exception was raised
    accepted,      \* history: accepted events, in read order
    written,       \* history: rows writerow() has taken, in order
    lastRead,      \* history: outcome of the last readline()
    checks,        \* history: rotation checks evaluated in this iteration
    ioerr,         \* history: some write, flush or close of an output file failed
    prior          \* the files an earlier run of the program left in the directory

vars == <<prog, period, clock, pc, ser, h, newh, leaked, disk, created,
          lick_count, opened_at, rotate_after, cur, exc, excAt, accepted,
          written, lastRead, checks, ioerr, prior>>

Progs == {"lick", "serial"}

\* values tried for --minutes (an int; 0 is accepted by argparse)
MinutesArgs == {0, 1}

\* lines the channel can deliver
InputLines ==
    { <<"1", "0", "\t", "l", "i", "c", "k", "\t", "x", "\n">>,
      <<"x", "\t", "2", "0", "\t", "l", "i", "c", "k", "\t", "1", "\n">>,
      <<"1", "0", " ", "a", "\n">>,
      <<"t", "e", "m", "p", "\n">>,
      <<"\n">> }

(* ------------------------------ files ---------------------------------- *)
Header == <<"header">>

\* a row-sized gap left by a write past the end of a file
Hole == <<"hole", "hole", "hole", "hole">>

NoHandle == [name |-> <<"none", 0>>, buf |-> <<>>, pos |-> 0, open |-> FALSE]

\* strftime("licks_%Y%m%d_%H%M%S.csv") / ("log_%Y%m%d_%H%M%S.csv") at second t
FileName(p, t) == <<IF p = "lick" THEN "licks" ELSE "log", t>>

RECURSIVE Holes(_)
Holes(n) == IF n <= 0 THEN <<>> ELSE <<Hole>> \o Holes(n - 1)

\* the rows of a file after buf is written at row offset pos
WriteAt(content, pos, buf) ==
    LET padded == IF Len(content) < pos
                  THEN content \o Holes(pos - Len(content)) ELSE content
    IN  SubSeq(padded, 1, pos) \o buf
            \o SubSeq(padded, pos + Len(buf) + 1, Len(padded))

\* open(fname, "w"): creates the file, or truncates the one that exists
OpenW(d, name) == [n \in DOMAIN d \cup {name} |-> IF n = name THEN <<>> ELSE d[n]]

\* a handle on a new file with no header row written to it
NewHandleNoHeader(name) == [name |-> name, buf |-> <<>>, pos |-> 0, open |-> TRUE]

\* f = open(fname, "w"); w.writerow(header): the header row is in the buffer
NewHandle(name) == [name |-> name, buf |-> <<Header>>, pos |-> 0, open |-> TRUE]

\* a flush that reports success and leaves the rows in the buffer
FlushedHandleKeepsBuf(f) == f

\* f.flush() succeeding: the buffered rows reach the file
FlushedHandle(f) == [f EXCEPT !.buf = <<>>, !.pos = f.pos + Len(f.buf)]

FlushedDisk(d, f) ==
    IF f.buf = <<>> THEN d
    ELSE [d EXCEPT ![f.name] = WriteAt(d[f.name], f.pos, f.buf)]

\* a flush can fail only when it has something to write, or the file is closed
CanFail(f) == f.buf # <<>> \/ ~f.open

\* a writer that puts the row in front of what is buffered
WriteRowFirst(f, row) == [f EXCEPT !.buf = <<row>> \o f.buf]

\* csv.writer.writerow(row): the row goes to the handle's buffer
WriteRow(f, row) == [f EXCEPT !.buf = Append(f.buf, row)]

\* f.close(): the descriptor is released whether or not the last flush worked
ClosedHandle(f) == [f EXCEPT !.buf = <<>>, !.pos = f.pos + Len(f.buf), !.open = FALSE]

\* a counter that skips a number
NextCountSkip(c) == c + 2

\* lick_count += 1
NextCount(c) == c + 1

\* the row of the accepted event: [lick_ts, lick_count] / [iso_time, ts_str, cadena]
LickRow(ts, n) == <<ts, n>>

SerialRow(t, ts_str, cadena) == <<t, ts_str, cadena>>

\* a rotation test that fires one second before the deadline
DueEarly(p, now, opened, after) ==
    IF p = "lick" THEN (now - opened) >= after - 1 ELSE now >= after - 1

\* a rotation test that waits until the deadline has passed
DueLate(p, now, opened, after) ==
    IF p = "lick" THEN (now - opened) > after ELSE now > after

\* the rotation test: (time.time() - opened_at) >= rotate_after / now >= rotate_after
Due(p, now, opened, after) ==
    IF p = "lick" THEN (now - opened) >= after ELSE now >= after

\* a deadline that is not moved when a new file is opened
DeadlineStale(p, opened, per) == per

\* created_at + timedelta(minutes=period_min) / the constant args.minutes * 60.0
Deadline(p, opened, per) == IF p = "lick" THEN per ELSE opened + per

\* a loop that treats every line as an event
AfterReadCounts(p, ok) == IF p = "lick" THEN "count" ELSE "write"

\* where the iteration goes once the line is parsed: the event branch
\* (if m: / if ts_str is None: continue) or straight to the rotation check
AfterRead(p, ok) ==
    IF ok THEN (IF p = "lick" THEN "count" ELSE "write") ELSE "rotcheck"

\* a start-up that reports the failed open and goes on
AfterOpenSerialGoesOn(ok) == "open_first"

\* after serial.Serial(...): on to the first file, or sys.exit in the handler
AfterOpenSerial(ok) == IF ok THEN "open_first" ELSE "done"

\* the status of sys.exit when the channel cannot be opened
ExitStatus(p) == IF p = "lick" THEN 2 ELSE 1

\* first statement of the finally block
FinallyEntry(p) == IF p = "lick" THEN "fin_flush" ELSE "fin_ser"

OpenCount ==
    (IF h.open THEN 1 ELSE 0) + (IF newh.open THEN 1 ELSE 0) + leaked

(* ------------------------------ startup -------------------------------- *)
Init ==
    /\ prog \in Progs
    /\ period \in IF prog = "lick" THEN {m * SecPerMin : m \in MinutesArgs}
                  ELSE 0..MaxPeriod
    /\ clock = 0
    /\ pc = "start"
    /\ ser = "unopened"
    /\ h = NoHandle
    /\ newh = NoHandle
    /\ leaked = 0
    /\ disk = [n \in {} |-> <<>>]
    /\ created = <<>>
    /\ lick_count = 0
    /\ opened_at = 0
    /\ rotate_after = Deadline(prog, 0, period)
    /\ cur = <<>>
    /\ exc = "none"
    /\ excAt = "none"
    /\ accepted = <<>>
    /\ written = <<>>
    /\ lastRead = "none"
    /\ checks = 0
    /\ ioerr = FALSE
    /\ prior = [n \in {} |-> <<>>]

\* serial.Serial(port, baud, timeout=1): opens, or the process exits
OpenSerial ==
    /\ pc = "start"
    /\ \/ ser' = "open" /\ pc' = AfterOpenSerial(TRUE) /\ UNCHANGED <<exc, excAt>>
       \/ ser' = ser /\ pc' = AfterOpenSerial(FALSE) /\ exc' = "SystemExit" /\ excAt' = pc
    /\ UNCHANGED <<prior, prog, period, clock, h, newh, leaked, disk, created, lick_count,
                   opened_at, rotate_after, cur, accepted, written,
                   lastRead, checks, ioerr>>

\* open_csv(log_dir) / new_csv_writer(outdir), up to the return
OpenCsv ==
    /\ pc \in {"open_first", "rot_open"}
    /\ LET name == FileName(prog, clock)
           fresh == NewHandle(name)
           d1 == OpenW(disk, name)
       IN  /\ created' = Append(created, name)
           /\ IF prog = "lick"
              THEN \* the header stays in the buffer: open_csv does not flush
                   /\ disk' = d1
                   /\ newh' = fresh
                   /\ leaked' = leaked
                   /\ UNCHANGED <<exc, excAt, ioerr>>
                   /\ pc' = IF pc = "open_first" THEN "assign_first" ELSE "rot_assign"
              ELSE \* new_csv_writer flushes the header; the flush may raise
                   \/ /\ disk' = FlushedDisk(d1, fresh)
                      /\ newh' = FlushedHandle(fresh)
                      /\ leaked' = leaked
                      /\ UNCHANGED <<exc, excAt, ioerr>>
                      /\ pc' = IF pc = "open_first" THEN "assign_first" ELSE "rot_assign"
                   \/ /\ disk' = d1
                      /\ newh' = NoHandle
                      /\ leaked' = leaked + 1
                      /\ exc' = "OSError"
                      /\ excAt' = pc
                      /\ ioerr' = TRUE
                      /\ pc' = IF pc = "open_first" THEN "done" ELSE FinallyEntry(prog)
    /\ UNCHANGED <<prior, prog, period, clock, ser, h, lick_count, opened_at, rotate_after,
                   cur, accepted, written, lastRead, checks>>

\* csv_file, writer, opened_at = ...  /  f, writer, created_at = ...; rotate_after = ...
Assign ==
    /\ pc \in {"assign_first", "rot_assign"}
    /\ h' = newh
    /\ newh' = NoHandle
    /\ opened_at' = clock
    /\ rotate_after' = Deadline(prog, clock, period)
    /\ pc' = "read"
    /\ IF h.open
       THEN \* the old handle was never closed: it is finalised now, or stays open
            \/ leaked' = leaked + 1 /\ disk' = disk /\ ioerr' = ioerr
            \/ leaked' = leaked /\ disk' = FlushedDisk(disk, h) /\ ioerr' = ioerr
            \/ leaked' = leaked /\ disk' = disk /\ ioerr' = TRUE
       ELSE leaked' = leaked /\ disk' = disk /\ ioerr' = ioerr
    /\ UNCHANGED <<prior, prog, period, clock, ser, created, lick_count, cur, exc, excAt,
                   accepted, written, lastRead, checks>>

(* ----------------------------- the loop -------------------------------- *)
\* the environment delivers a read only within the bounds of the model
CanRead(d) ==
    /\ pc = "read"
    /\ clock + d <= opened_at + period + MaxLate
    /\ Len(created) <= MaxFiles

\* ser.readline() returns b"" after d seconds
ReadEmptyAt(d) ==
    /\ CanRead(d)
    /\ clock' = clock + d
    /\ lastRead' = "timeout"
    /\ checks' = 0
    /\ pc' = "rotcheck"
    /\ UNCHANGED <<prior, prog, period, ser, h, newh, leaked, disk, created, lick_count,
                   opened_at, rotate_after, cur, exc, excAt, accepted, written, ioerr>>

\* ser.readline() returns b"" after the timeout
ReadEmpty == \E d \in 0..ReadTimeout : ReadEmptyAt(d)

\* ser.readline() returns line after d seconds; it is decoded, stripped and
\* parsed; the environment delivers at most maxEv accepted lines
ReadLineAt(d, line, maxEv) ==
    /\ CanRead(d)
    /\ clock' = clock + d
    /\ checks' = 0
    /\ IF prog = "lick"
       THEN LET m == LickParse(line)
            IN  IF m.ok
                THEN /\ Len(accepted) < maxEv
                     /\ cur' = <<m.ts>>
                     /\ accepted' = Append(accepted, m.ts)
                     /\ lastRead' = "accepted"
                     /\ pc' = AfterRead(prog, TRUE)
                ELSE /\ UNCHANGED <<cur, accepted>>
                     /\ lastRead' = "rejected"
                     /\ pc' = AfterRead(prog, FALSE)
       ELSE LET r == SerialParse(line)
                row == SerialRow(clock', r.ts_str, r.cadena)
            IN  IF r.ok
                THEN /\ Len(accepted) < maxEv
                     /\ cur' = row
                     /\ accepted' = Append(accepted, row)
                     /\ lastRead' = "accepted"
                     /\ pc' = AfterRead(prog, TRUE)
                ELSE /\ UNCHANGED <<cur, accepted>>
                     /\ lastRead' = "rejected"
                     /\ pc' = AfterRead(prog, FALSE)
    /\ UNCHANGED <<prior, prog, period, ser, h, newh, leaked, disk, created, lick_count,
                   opened_at, rotate_after, exc, excAt, written, ioerr>>

\* ser.readline() returns a line
ReadLine ==
    \E d \in 0..ReadTimeout, line \in InputLines : ReadLineAt(d, line, MaxEvents)

\* ser.readline() raises serial.SerialException
ReadError ==
    \E d \in 0..ReadTimeout :
        /\ CanRead(d)
        /\ clock' = clock + d
        /\ lastRead' = "error"
        /\ checks' = 0
        /\ IF prog = "lick"
           THEN \* no handler around the read: the exception leaves the loop
                /\ exc' = "SerialException"
                /\ excAt' = pc
                /\ pc' = FinallyEntry(prog)
           ELSE \* except serial.SerialException: sleep(0.5); continue
                /\ UNCHANGED <<exc, excAt>>
                /\ pc' = "read"
        /\ UNCHANGED <<prior, prog, period, ser, h, newh, leaked, disk, created, lick_count,
                       opened_at, rotate_after, cur, accepted, written, ioerr>>

\* lick_count += 1
Count ==
    /\ pc = "count"
    /\ lick_count' = NextCount(lick_count)
    /\ pc' = "write"
    /\ UNCHANGED <<prior, prog, period, clock, ser, h, newh, leaked, disk, created,
                   opened_at, rotate_after, cur, exc, excAt, accepted, written,
                   lastRead, checks, ioerr>>

\* writer.writerow(...): the row is buffered, or the write raises
WriteRowStep ==
    /\ pc = "write"
    /\ LET row == IF prog = "lick" THEN LickRow(cur[1], lick_count) ELSE cur
       IN  \/ /\ h' = WriteRow(h, row)
              /\ written' = Append(written, row)
              /\ pc' = "flush"
              /\ UNCHANGED <<exc, excAt, ioerr>>
           \/ /\ UNCHANGED <<h, written>>
              /\ pc' = FinallyEntry(prog)
              /\ exc' = "OSError"
              /\ excAt' = pc
              /\ ioerr' = TRUE
    /\ UNCHANGED <<prior, prog, period, clock, ser, newh, leaked, disk, created, lick_count,
                   opened_at, rotate_after, cur, accepted, lastRead, checks>>

\* csv_file.flush() / f.flush() after the row: durable, or the flush raises
FlushRow ==
    /\ pc = "flush"
    /\ \/ /\ disk' = FlushedDisk(disk, h)
          /\ h' = FlushedHandle(h)
          /\ pc' = "rotcheck"
          /\ UNCHANGED <<exc, excAt, ioerr>>
       \/ /\ CanFail(h)
          /\ UNCHANGED <<disk, h>>
          /\ pc' = FinallyEntry(prog)
          /\ exc' = "OSError"
          /\ excAt' = pc
          /\ ioerr' = TRUE
    /\ UNCHANGED <<prior, prog, period, clock, ser, newh, leaked, created, lick_count,
                   opened_at, rotate_after, cur, accepted, written,
                   lastRead, checks>>

\* the rotation check at the end of the iteration
RotCheck ==
    /\ pc = "rotcheck"
    /\ checks' = checks + 1
    /\ pc' = IF Due(prog, clock, opened_at, rotate_after)
             THEN (IF prog = "lick" THEN "rot_flush" ELSE "rot_close")
             ELSE "read"
    /\ UNCHANGED <<prior, prog, period, clock, ser, h, newh, leaked, disk, created,
                   lick_count, opened_at, rotate_after, cur, exc, excAt, accepted,
                   written, lastRead, ioerr>>

\* try: csv_file.flush() ... except Exception: pass   (lick, line 101)
RotFlush ==
    /\ pc = "rot_flush"
    /\ \/ /\ disk' = FlushedDisk(disk, h)
          /\ h' = FlushedHandle(h)
          /\ pc' = "rot_close"
          /\ ioerr' = ioerr
       \/ /\ CanFail(h)
          /\ UNCHANGED <<disk, h>>
          /\ pc' = "rot_open"
          /\ ioerr' = TRUE
    /\ UNCHANGED <<prior, prog, period, clock, ser, newh, leaked, created, lick_count,
                   opened_at, rotate_after, cur, exc, excAt, accepted, written,
                   lastRead, checks>>

\* csv_file.close() / f.close() of the rotation; it may raise (the last flush
\* or the release of the descriptor fails) and the exception is swallowed
RotClose ==
    /\ pc = "rot_close"
    /\ \/ disk' = FlushedDisk(disk, h) /\ ioerr' = ioerr
       \/ disk' = disk /\ ioerr' = TRUE
    /\ h' = ClosedHandle(h)
    /\ pc' = "rot_open"
    /\ UNCHANGED <<prior, prog, period, clock, ser, newh, leaked, created, lick_count,
                   opened_at, rotate_after, cur, exc, excAt, accepted, written,
                   lastRead, checks>>

(* ----------------------------- shutdown -------------------------------- *)
\* statements inside the try block of main()
TryPcs == {"read", "count", "write", "flush", "rotcheck", "rot_flush",
           "rot_close", "rot_open", "rot_assign"}

\* Ctrl+C: KeyboardInterrupt is raised at whatever statement is running
Interrupt ==
    /\ pc \in TryPcs
    /\ exc' = "KeyboardInterrupt"
    /\ excAt' = pc
    /\ pc' = FinallyEntry(prog)
    /\ UNCHANGED <<prior, prog, period, clock, ser, h, newh, leaked, disk, created,
                   lick_count, opened_at, rotate_after, cur, accepted, written,
                   lastRead, checks, ioerr>>

\* finally: try: csv_file.flush() ...   (lick, line 112)
FinFlush ==
    /\ pc = "fin_flush"
    /\ \/ /\ h.open
          /\ disk' = FlushedDisk(disk, h)
          /\ h' = FlushedHandle(h)
          /\ pc' = "fin_close"
          /\ ioerr' = ioerr
       \/ /\ CanFail(h)
          /\ UNCHANGED <<disk, h>>
          /\ pc' = "fin_ser"
          /\ ioerr' = (ioerr \/ h.open)
    /\ UNCHANGED <<prior, prog, period, clock, ser, newh, leaked, created, lick_count,
                   opened_at, rotate_after, cur, exc, excAt, accepted, written,
                   lastRead, checks>>

\* finally: csv_file.close() (lick, line 113) / f.close() (serial, line 132)
FinClose ==
    /\ pc = "fin_close"
    /\ IF h.open
       THEN /\ \/ disk' = FlushedDisk(disk, h) /\ ioerr' = ioerr
               \/ disk' = disk /\ ioerr' = TRUE
            /\ h' = ClosedHandle(h)
       ELSE UNCHANGED <<disk, h, ioerr>>
    /\ pc' = IF prog = "lick" THEN "fin_ser" ELSE "done"
    /\ UNCHANGED <<prior, prog, period, clock, ser, newh, leaked, created, lick_count,
                   opened_at, rotate_after, cur, exc, excAt, accepted, written,
                   lastRead, checks>>

\* finally: ser.close()
FinSer ==
    /\ pc = "fin_ser"
    /\ ser' = "closed"
    /\ pc' = IF prog = "lick" THEN "done" ELSE "fin_close"
    /\ UNCHANGED <<prior, prog, period, clock, h, newh, leaked, disk, created, lick_count,
                   opened_at, rotate_after, cur, exc, excAt, accepted, written,
                   lastRead, checks, ioerr>>

Next ==
    \/ OpenSerial
    \/ OpenCsv
    \/ Assign
    \/ ReadEmpty
    \/ ReadLine
    \/ ReadError
    \/ Count
    \/ WriteRowStep
    \/ FlushRow
    \/ RotCheck
    \/ RotFlush
    \/ RotClose
    \/ Interrupt
    \/ FinFlush
    \/ FinClose
    \/ FinSer

Spec == Init /\ [][Next]_vars

(* ------------------------- derived quantities -------------------------- *)
IsData(r) == r # Header /\ r # Hole

\* the event rows of a file, header and gaps left out
DataRows(rows) == SelectSeq(rows, IsData)

\* the event rows of all files, files taken in creation order
RECURSIVE AllRows(_)
AllRows(names) ==
    IF names = <<>> THEN <<>>
    ELSE LET n == Head(names)
             later == \E i \in 2..Len(names) : names[i] = n
         IN  (IF later THEN <<>> ELSE DataRows(disk[n])) \o AllRows(Tail(names))

\* the row the k-th accepted event of the run is to produce
ExpectedRow(k) == IF prog = "lick" THEN LickRow(accepted[k], k) ELSE accepted[k]

ExpectedRows == [k \in 1..Len(accepted) |-> ExpectedRow(k)]

IsPrefix(a, b) == Len(a) <= Len(b) /\ SubSeq(b, 1, Len(a)) = a

(* ------------------------------- claims -------------------------------- *)

\* C1: in the lick logger the row written for the k-th accepted event of the
\* run carries lick_number k, whatever rotations happened in between; the
\* counter is never behind the rows written and at most one ahead (the event
\* being processed).
C1_NumberingContinuous ==
    prog = "lick" =>
        /\ Len(written) <= Len(accepted)
        /\ \A k \in 1..Len(written) : written[k] = LickRow(accepted[k], k)
        /\ lick_count \in {Len(written), Len(written) + 1}
        /\ lick_count <= Len(accepted)

\* two events numbered 1 and 2 sit in two different files, a rotation between
C1_Witness ==
    /\ prog = "lick"
    /\ period > 0
    /\ Len(written) = 2
    /\ Len(created) = 2
    /\ created[1] # created[2]
    /\ DataRows(disk[created[1]]) = <<written[1]>>
    /\ DataRows(disk[created[2]]) = <<written[2]>>
    /\ written[2][2] = 2

\* C2: at every iteration boundary the event rows found in the files, read in
\* creation order, are exactly the accepted events in read order, each once.
C2_EveryEventInOneFile ==
    pc = "read" => AllRows(created) = ExpectedRows

\* C3: opening an output file never overwrites an existing one: every file
\* that exists keeps the rows it holds, and the name opened is a new one.
C3_OpenNeverOverwrites ==
    [][/\ \A n \in DOMAIN disk : n \in DOMAIN disk' /\ IsPrefix(disk[n], disk'[n])
       /\ created' # created => created'[Len(created')] \notin DOMAIN disk]_vars

\* C4: at most one output file is open for writing in every state.
C4_AtMostOneOpen == OpenCount <= 1

\* C5: whenever the loop is about to read, and from the rotation check to the
\* end of the rotation, every accepted event has been handed to writerow and
\* no event row is left in the buffer of the handle; at the rotation check
\* that follows an accepted event its row is the last row of the open file.
C5_FlushedBeforeNextRead ==
    /\ pc \in {"read", "rotcheck", "rot_flush", "rot_close", "rot_open", "rot_assign"} =>
           /\ Len(written) = Len(accepted)
           /\ DataRows(h.buf) = <<>>
           /\ DataRows(newh.buf) = <<>>
    /\ (pc = "rotcheck" /\ lastRead = "accepted") =>
           /\ h.open
           /\ disk[h.name] # <<>>
           /\ disk[h.name][Len(disk[h.name])] = written[Len(written)]

\* an accepted event has been written and flushed and the loop reads again
C5_Witness ==
    /\ pc = "read"
    /\ lastRead = "accepted"
    /\ Len(written) = 2
    /\ h.open
    /\ h.buf = <<>>
    /\ DataRows(disk[h.name]) # <<>>

\* C6: every iteration of the loop evaluates the rotation check exactly once
\* before the next read, whatever the read returned.
C6_OneCheckPerIteration ==
    [][(pc \in TryPcs /\ pc' = "read") => checks' = 1]_vars

\* C7: a SerialException raised by the read never ends the run: after it the
\* loop is reading again with the output file and the channel open.
C7_ReadErrorNotFatal ==
    /\ exc # "SerialException"
    /\ (lastRead = "error" /\ exc = "none") => (pc = "read" /\ h.open /\ ser = "open")

\* C8: after writerow or flush of an event row raised, the run ends with the
\* output handle closed and the channel closed.
C8_AppendFailureShutsDown ==
    (pc = "done" /\ exc = "OSError" /\ excAt \in {"write", "flush"}) =>
        (~h.open /\ ser = "closed")

\* C9: after an operator interrupt, and with no output I/O failure in the run,
\* the run ends with the output file closed, no other handle open, the channel
\* closed and every accepted event in an output file.
C9_InterruptShutsDownClean ==
    (pc = "done" /\ exc = "KeyboardInterrupt" /\ ~ioerr) =>
        /\ ~h.open
        /\ OpenCount = 0
        /\ ser = "closed"
        /\ AllRows(created) = ExpectedRows

\* C10: an interrupt never takes effect between the counter increment, the row
\* write and the flush of one event, nor between the close and the open of a
\* rotation; so a run ended by an interrupt has consumed no number without
\* writing its row.
C10_InterruptBetweenIterations ==
    exc = "KeyboardInterrupt" =>
        /\ excAt \notin {"write", "flush", "rot_open", "rot_assign"}
        /\ prog = "lick" => lick_count = Len(written)

\* the rows of the file behind a handle once its buffer is written out
FileContent(f) == WriteAt(disk[f.name], f.pos, f.buf)

\* the instant at which the rotation test of the current file becomes true
DeadlineAbs == IF prog = "lick" THEN opened_at + rotate_after ELSE rotate_after

\* C11: in every state the rotation deadline is the open instant of the
\* current file plus exactly one period; a rotation that falls due happens
\* even when no event was accepted (the loop never reads again past a deadline
\* it has checked), and the file it opens holds the header row and nothing else.
C11_DeadlineFollowsOpen ==
    /\ h # NoHandle =>
           /\ h.name = FileName(prog, opened_at)
           /\ DeadlineAbs = opened_at + period
    /\ (pc = "read" /\ lastRead # "error" /\ period > 0) => clock < DeadlineAbs
    /\ (pc = "read" /\ accepted = <<>>) => (h.open /\ FileContent(h) = <<Header>>)

\* a rotation with no event since the start opened a header-only second file
C11_Witness ==
    /\ pc = "read"
    /\ period > 0
    /\ accepted = <<>>
    /\ Len(created) = 2
    /\ created[1] # created[2]
    /\ opened_at = period
    /\ FileContent(h) = <<Header>>
    /\ DeadlineAbs = 2 * period

(* ------------------- the end-to-end run of the lick logger ------------- *)
\* three lick lines and the second at which each reaches the serial port
E2EArrivals ==
    << [t |-> 0,  line |-> <<"1", "0", "\t", "l", "i", "c", "k", "\t", "1", "\n">>],
       [t |-> 30, line |-> <<"2", "0", "\t", "l", "i", "c", "k", "\t", "1", "\n">>],
       [t |-> 90, line |-> <<"3", "0", "\t", "l", "i", "c", "k", "\t", "1", "\n">>] >>

\* pc_lick_logger.py --minutes 1
InitE2E == Init /\ prog = "lick" /\ period = 1 * SecPerMin

\* no output I/O step fails and nothing is raised
NoFault == ioerr' = FALSE /\ exc' = "none"

\* the read returns the next line when it arrives within the timeout
E2EReadLine ==
    LET ix == Len(accepted) + 1
    IN  /\ ix <= Len(E2EArrivals)
        /\ E2EArrivals[ix].t <= clock + ReadTimeout
        /\ ReadLineAt(IF E2EArrivals[ix].t > clock THEN E2EArrivals[ix].t - clock ELSE 0,
                      E2EArrivals[ix].line, Len(E2EArrivals))

\* otherwise the read times out after ReadTimeout seconds
E2EReadEmpty ==
    LET ix == Len(accepted) + 1
    IN  /\ IF ix > Len(E2EArrivals) THEN TRUE
           ELSE E2EArrivals[ix].t > clock + ReadTimeout
        /\ ReadEmptyAt(ReadTimeout)

NextE2E ==
    \/ OpenSerial /\ NoFault
    \/ OpenCsv /\ NoFault
    \/ Assign /\ NoFault
    \/ E2EReadEmpty
    \/ E2EReadLine
    \/ Count
    \/ WriteRowStep /\ NoFault
    \/ FlushRow /\ NoFault
    \/ RotCheck
    \/ RotFlush /\ NoFault
    \/ RotClose /\ NoFault

SpecE2E == InitE2E /\ [][NextE2E]_vars

\* C12: lick logger, period one minute, lines with timestamps 10, 20, 30
\* arriving at 0 s, 30 s and 90 s: the first file is licks_<0 s> and holds
\* exactly the rows (10,1), (20,2); the second file is opened by the rotation
\* at 60 s, is header-only until the third line, and then holds exactly (30,3).
C12_EndToEnd ==
    LET f1 == FileName("lick", 0)
        f2 == FileName("lick", SecPerMin)
    IN  /\ (pc = "read" /\ Len(accepted) >= 2) =>
               /\ created[1] = f1
               /\ DataRows(disk[f1]) = <<LickRow(10, 1), LickRow(20, 2)>>
        /\ (pc = "read" /\ Len(accepted) = 2 /\ clock >= SecPerMin) =>
               /\ Len(created) = 2
               /\ created[2] = f2
               /\ FileContent(h) = <<Header>>
        /\ (pc = "read" /\ Len(accepted) = 3) =>
               /\ Len(created) >= 2
               /\ created[2] = f2
               /\ disk[f1] = <<Header, LickRow(10, 1), LickRow(20, 2)>>
               /\ disk[f2] = <<Header, LickRow(30, 3)>>

\* the third line has been logged, 90 s into the run
C12_Witness ==
    /\ pc = "read"
    /\ clock = 90
    /\ Len(accepted) = 3
    /\ Len(created) = 2
    /\ disk[FileName("lick", SecPerMin)] = <<Header, LickRow(30, 3)>>

(* ------------------------- the parsers alone --------------------------- *)
\* lines built around the lick marker: prefix, digits, tag, rest of the line
LickLines ==
    { pre \o dig \o tag \o post :
        pre \in {<<>>, <<"x">>, <<"x", "\t">>, <<"7">>, <<" ">>},
        dig \in {<<>>, <<"4", "2">>, <<"5">>, <<"a">>},
        tag \in {LickTag, <<"\t", "l", "i", "c", "k">>, <<" ", "l", "i", "c", "k", "\t">>,
                 <<"\t", "l", "i", "c", "k", " ">>, <<>>},
        post \in {<<>>, <<"\n">>, <<"1", "\n">>, <<" ", "\n">>, <<"\r", "\n">>} }

\* lines built as the positional parser reads them: token, gap, remainder
SerialLines ==
    { lead \o tok \o sep \o rest \o trail :
        lead \in {<<>>, <<" ">>},
        tok \in {<<>>, <<"1", "0">>, <<"1", ".", "5">>, <<"a", "b", "c">>,
                 <<"1", "e", "3">>, <<"n", "a", "n">>, <<"-", "7">>,
                 <<"1", "_", "0">>, <<"x", "1">>},
        sep \in {<<>>, <<" ">>, <<" ", " ">>, <<"\t">>},
        rest \in {<<>>, <<"a">>, <<"a", " ", "b">>, <<"a", " ", " ", "b">>},
        trail \in {<<>>, <<"\n">>, <<" ", "\n">>} }

ParseLines == LickLines \cup SerialLines

\* one line is handed to the parser of the program; cur holds the line
InitParse ==
    /\ prog \in Progs
    /\ cur \in ParseLines
    /\ pc = "parse"
    /\ period = 0
    /\ clock = 0
    /\ ser = "open"
    /\ h = NoHandle
    /\ newh = NoHandle
    /\ leaked = 0
    /\ disk = [n \in {} |-> <<>>]
    /\ created = <<>>
    /\ lick_count = 0
    /\ opened_at = 0
    /\ rotate_after = Deadline(prog, 0, 0)
    /\ exc = "none"
    /\ excAt = "none"
    /\ accepted = <<>>
    /\ written = <<>>
    /\ lastRead = "none"
    /\ checks = 0
    /\ ioerr = FALSE
    /\ prior = [n \in {} |-> <<>>]

\* the parser is applied; accepted receives what it extracted
ParseStep ==
    /\ pc = "parse"
    /\ pc' = "parsed"
    /\ IF prog = "lick"
       THEN LET m == LickParse(cur)
            IN  /\ lastRead' = IF m.ok THEN "accepted" ELSE "rejected"
                /\ accepted' = IF m.ok THEN <<m.ts>> ELSE <<>>
       ELSE LET r == parse_line(cur)
            IN  /\ lastRead' = IF r.ok THEN "accepted" ELSE "rejected"
                /\ accepted' = IF r.ok THEN <<<<r.ts_str, r.cadena>>>> ELSE <<>>
    /\ UNCHANGED <<prior, prog, period, clock, ser, h, newh, leaked, disk, created,
                   lick_count, opened_at, rotate_after, cur, exc, excAt, written,
                   checks, ioerr>>

NextParse == ParseStep

SpecParse == InitParse /\ [][NextParse]_vars

\* the line without its terminator (\n or \r\n)
Body(line) ==
    LET a == IF line # <<>> /\ line[Len(line)] = "\n"
             THEN SubSeq(line, 1, Len(line) - 1) ELSE line
    IN  IF a # <<>> /\ a[Len(a)] = "\r" THEN SubSeq(a, 1, Len(a) - 1) ELSE a

\* s[i..j] is a whole run of digits followed at once by the tag
MarkerAt(s, i, j) ==
    /\ LickMatch(s, i, j)
    /\ i = 1 \/ ~IsDigit(s[i - 1])

\* C13: the lick parser accepts a line exactly when the line holds, anywhere
\* before its terminator (the end included), a run of digits immediately
\* followed by tab, "lick", tab; the timestamp is the value of such a run.
C13_TokenAnywhere ==
    (pc = "parsed" /\ prog = "lick") =>
        LET b == Body(cur)
            M == {p \in (1..Len(b)) \X (1..Len(b)) : MarkerAt(b, p[1], p[2])}
        IN  /\ lastRead = "accepted" <=> M # {}
            /\ lastRead = "accepted" =>
                   \E p \in M : accepted = <<ParseInt(SubSeq(b, p[1], p[2]))>>

\* characters of s that are whitespace
HasSpace(s) == \E i \in 1..Len(s) : IsSpace(s[i])

\* C14: parse_line rejects exactly the lines that are empty or whitespace
\* only, that hold a single token, or whose leading token float() does not
\* take; for every other line it returns the leading token as text and the
\* remainder after the first run of whitespace, inner whitespace untouched.
C14_PositionalParse ==
    (pc = "parsed" /\ prog = "serial") =>
        LET s == Strip(cur)
            k == FirstSpace(s)
        IN  /\ lastRead = "rejected" <=>
                   \/ s = <<>>
                   \/ ~HasSpace(s)
                   \/ ~IsFloat(SubSeq(s, 1, k - 1))
            /\ lastRead = "rejected" => accepted = <<>>
            /\ lastRead = "accepted" =>
                   \E n \in k..Len(s) :
                       /\ \A i \in k..n : IsSpace(s[i])
                       /\ n < Len(s)
                       /\ ~IsSpace(s[n + 1])
                       /\ ~HasSpace(SubSeq(s, 1, k - 1))
                       /\ accepted = <<<<SubSeq(s, 1, k - 1), SubSeq(s, n + 1, Len(s))>>>>

\* "10  a  b" with two-blank gaps: token "10", remainder "a  b"
C14_Witness ==
    /\ pc = "parsed"
    /\ prog = "serial"
    /\ cur = <<"1", "0", " ", " ", "a", " ", " ", "b", "\n">>
    /\ accepted = << << <<"1", "0">>, <<"a", " ", " ", "b">> >> >>

\* C15: once the flush or the close of a rotation has failed the run goes on:
\* whenever the loop then reads or handles an event the current handle is an
\* open handle on the file created last, that file starts with the header
\* row, and the row of every event accepted since is the last row of it.
C15_RotationFailureNotFatal ==
    (ioerr /\ exc = "none") =>
        /\ pc \in TryPcs
        /\ pc \in {"read", "count", "write", "flush", "rotcheck"} =>
               /\ h.open
               /\ Len(created) >= 2
               /\ h.name = created[Len(created)]
               /\ FileContent(h) # <<>>
               /\ FileContent(h)[1] = Header
        /\ (pc = "rotcheck" /\ lastRead = "accepted") =>
               disk[h.name] = <<Header>> \o DataRows(disk[h.name])
                   /\ disk[h.name][Len(disk[h.name])] = written[Len(written)]

\* the close of a rotation failed and a later event is in the second file
C15_Witness ==
    /\ ioerr
    /\ exc = "none"
    /\ pc = "rotcheck"
    /\ lastRead = "accepted"
    /\ Len(created) = 2
    /\ created[1] # created[2]
    /\ h.name = created[2]
    /\ disk[created[2]] = <<Header, written[Len(written)]>>

(* --------------------------- a second run ------------------------------ *)
\* latest second of a run at which it is stopped and started again
MaxRestartAt == 1

\* interpreter exit: a handle still open is flushed and closed
ExitFlush(d, f) == IF f.open THEN FlushedDisk(d, f) ELSE d

\* the operator has stopped the run between two lines and the process has
\* ended; the program is started again in the same directory, in the same
\* second or the next one
Restart ==
    /\ pc = "done"
    /\ exc = "KeyboardInterrupt"
    /\ excAt = "read"
    /\ DOMAIN prior = {}
    /\ created # <<>>
    /\ clock <= MaxRestartAt
    /\ \E d \in 0..1 : clock' = clock + d
    /\ disk' = ExitFlush(ExitFlush(disk, h), newh)
    /\ prior' = disk'
    /\ pc' = "start"
    /\ ser' = "unopened"
    /\ h' = NoHandle
    /\ newh' = NoHandle
    /\ leaked' = 0
    /\ created' = <<>>
    /\ lick_count' = 0
    /\ opened_at' = 0
    /\ rotate_after' = Deadline(prog, 0, period)
    /\ cur' = <<>>
    /\ exc' = "none"
    /\ excAt' = "none"
    /\ accepted' = <<>>
    /\ written' = <<>>
    /\ lastRead' = "none"
    /\ checks' = 0
    /\ ioerr' = FALSE
    /\ UNCHANGED <<prog, period>>

\* no write, flush or close of an output file fails
Calm == ioerr' = FALSE

NextRestart ==
    \/ Next /\ Calm
    \/ Restart

\* the runs that rotate within the first seconds
InitRestart == Init /\ period <= MaxPeriod

SpecRestart == InitRestart /\ [][NextRestart]_vars

\* C16: in a run started after an earlier run was stopped, every file the
\* earlier run left keeps its rows, the files the new run creates are new
\* files, and the first row the new run writes carries lick_number 1.
C16_RestartKeepsFiles ==
    DOMAIN prior # {} =>
        /\ \A n \in DOMAIN prior : disk[n] = prior[n]
        /\ \A i \in 1..Len(created) : created[i] \notin DOMAIN prior
        /\ (prog = "lick" /\ written # <<>>) => written[1][2] = 1

\* C17: an iteration whose read timed out or whose line the parser rejected
\* changes neither the counter nor any file nor the handle: the read goes
\* straight to the rotation check, and the check either starts a rotation
\* that is due or returns to the read; neither step ends the run.
C17_RejectedReadFrame ==
    [][/\ (pc = "read" /\ exc' = "none" /\ lastRead' \in {"timeout", "rejected"}) =>
            /\ pc' = "rotcheck"
            /\ UNCHANGED <<lick_count, disk, h, newh, accepted, written, created>>
       /\ (pc = "rotcheck" /\ exc' = "none" /\ lastRead \in {"timeout", "rejected"}) =>
            /\ UNCHANGED <<lick_count, disk, h, newh, accepted, written, created>>
            /\ pc' = IF Due(prog, clock, opened_at, rotate_after)
                     THEN (IF prog = "lick" THEN "rot_flush" ELSE "rot_close")
                     ELSE "read"]_vars

\* a rejected line came after a logged lick: the loop reads again, the counter
\* is still 1 and the file still holds the one row
C17_Witness ==
    /\ prog = "lick"
    /\ pc = "read"
    /\ lastRead = "rejected"
    /\ checks = 1
    /\ lick_count = 1
    /\ Len(created) = 1
    /\ disk[h.name] = <<Header, written[1]>>

\* rows that are one header row followed by event rows only
HeaderThenData(rows) ==
    /\ rows # <<>>
    /\ rows[1] = Header
    /\ \A i \in 2..Len(rows) : IsData(rows[i])

\* C18: every file holds one header row, as its first row, and event rows
\* after it: this is so for what is on disk of every file that is not empty,
\* and for the file behind every open handle once its buffer is written (the
\* header is handed to the writer at open time); a file gains event rows
\* only while it is the file of the open current handle.
C18_HeaderOnceAndFirst ==
    /\ [](/\ \A n \in DOMAIN disk : disk[n] # <<>> => HeaderThenData(disk[n])
          /\ h.open => HeaderThenData(FileContent(h))
          /\ newh.open => FileContent(newh) = <<Header>>)
    /\ [][\A n \in DOMAIN disk :
              Len(DataRows(disk'[n])) > Len(DataRows(disk[n])) =>
                  (h.open /\ h.name = n)]_vars

\* two files, each with its header row first and one event row after it
C18_Witness ==
    /\ Len(created) = 2
    /\ created[1] # created[2]
    /\ Len(written) = 2
    /\ disk[created[1]] = <<Header, written[1]>>
    /\ disk[created[2]] = <<Header, written[2]>>

\* C19: when the channel cannot be opened at start-up the process is over at
\* once, with a non-zero status, the channel never opened and no output file
\* created; and whenever an output file exists the channel has been opened.
C19_NoFileWithoutChannel ==
    /\ exc = "SystemExit" =>
           /\ pc = "done"
           /\ excAt = "start"
           /\ ExitStatus(prog) # 0
           /\ ser = "unopened"
           /\ created = <<>>
           /\ DOMAIN disk = {}
    /\ (created # <<>> \/ DOMAIN disk # {}) => ser \in {"open", "closed"}

\* the open of the channel failed and the process has exited
C19_Witness ==
    /\ exc = "SystemExit"
    /\ pc = "done"
    /\ ser = "unopened"
    /\ DOMAIN disk = {}

\* C20: the row of an accepted event is written and flushed before the
\* rotation check of its iteration is evaluated; so while the check and the
\* close of a rotation follow an accepted event, the event's row is the last
\* row of the file that was open when the line was read; and a rotation is
\* under way only when a full period has passed since that file was opened.
C20_AppendBeforeRotation ==
    LET old == FileName(prog, opened_at)
    IN  /\ pc \in {"count", "write", "flush"} => checks = 0
        /\ pc \in {"rot_flush", "rot_close", "rot_open", "rot_assign"} =>
               /\ checks = 1
               /\ clock - opened_at >= period
        /\ (pc \in {"rotcheck", "rot_flush", "rot_close", "rot_open"}
                /\ lastRead = "accepted") =>
               /\ h.name = old
               /\ disk[old] # <<>>
               /\ disk[old][Len(disk[old])] = written[Len(written)]

\* the line read in the iteration that reaches the deadline is in the old
\* file, which the rotation has just closed
C20_Witness ==
    /\ pc = "rot_open"
    /\ lastRead = "accepted"
    /\ period > 0
    /\ clock = opened_at + period
    /\ Len(created) = 1
    /\ ~h.open
    /\ disk[created[1]] = <<Header>> \o written

====
